---- MODULE Spec2Model ----
(***************************************************************************)
(* rosella: a status-bar push-to-talk transcriber (src/rosella.py).        *)
(*                                                                         *)
(* Two threads of control exist.  The main thread runs the Cocoa event     *)
(* loop: it delivers status-item clicks (statusItemClicked_) and the       *)
(* callbacks deferred with AppHelper.callAfter, one at a time.  Each       *)
(* Scribe.start() launches one capture thread running Scribe.record.       *)
(* The main thread and the capture threads share the Scribe attributes     *)
(* capture, model and result.                                              *)
(***************************************************************************)
EXTENDS Integers, Sequences, FiniteSets, TLC

\* ---- bounds of the model ------------------------------------------------
MaxClicks == 5      \* status-item clicks delivered in one run
MaxChunks == 2      \* chunks one capture loop may append

\* ---- program constants --------------------------------------------------
CHUNK == 1024            \* frames per stream.read
CHANNELS == 1
SampleWidth == 2         \* p.get_sample_size(pyaudio.paInt16), bytes
WavHeaderBytes == 44     \* header wave.open(..., 'wb') writes on close

\* texts model.transcribe may return
Texts == {"", "hello world", "bye"}

\* Python's None and a present value
None == <<>>
Some(v) == <<v>>

VARIABLES
    state,          \* StatusBarDelegate.state
    icon,           \* image shown by the status-item button
    callAfter,      \* callbacks queued with AppHelper.callAfter, FIFO
    mainpc,         \* where the main thread is: "loop", "init_model", "join"
    model,          \* Scribe.model: None or Some(instance id)
    record_thread,  \* Scribe.record_thread: None or Some(index in threads)
    result,         \* Scribe.result: None or Some(text)
    capture,        \* Scribe.capture: "unset" (no attribute yet), "true", "false"
    threads,        \* every capture thread ever started, in order
    pasteboard,     \* NSPasteboard content: None or Some(text)
    clicks,         \* clicks delivered so far
    loadCalls,      \* calls of from_pretrained so far
    sinkCalls,      \* log of _paste_to_clipboard calls
    stops,          \* log of Scribe.stop() returns
    busyFrom        \* the state the last accepted click left

vars == <<state, icon, callAfter, mainpc, model, record_thread, result,
          capture, threads, pasteboard, clicks, loadCalls, sinkCalls, stops,
          busyFrom>>

\* the button exists for the whole run: applicationDidFinishLaunching_
\* raises when status_item.button() is None
ButtonIsNone == FALSE

\* ---- capture threads ----------------------------------------------------
\* pc of a capture thread (Scribe.record):
\*   "start"   launched, nothing done yet
\*   "open"    temp dir and wave file created, about to p.open the stream
\*   "while"   at the test of  while self.capture
\*   "read"    inside the loop body, stream.read + wf.writeframes
\*   "stat"    loop left, stream and wave file closed, about to stat the file
\*   "transcribe"  inside self.model.transcribe
\*   "done"    record returned;  "raised"  record left by an exception
\* tmp: the temp dir exists; wavOpen: the wave file is open for writing;
\* sized: the st_size read at line 177; atStop: the chunks written when
\* stop() cleared the capture flag for this thread
NewThread ==
    [pc |-> "start", chunks |-> 0, tmp |-> FALSE, cause |-> "none",
     text |-> None, modelUsed |-> None, wavOpen |-> FALSE, sized |-> None,
     atStop |-> None]

Alive(t) == t.pc \notin {"done", "raised"}

\* start() launches at most one thread per accepted click
ThreadIds == 1..MaxClicks

\* thread i has been launched by Scribe.start
Started(i) == i \in DOMAIN threads

\* bytes of output.wav after the wave file is closed
FileSize(chunks) == WavHeaderBytes + chunks * CHUNK * CHANNELS * SampleWidth

\* line 177: temp_path.stat().st_size > CHUNK
LongEnough(size) == size > CHUNK

Init ==
    /\ state = "ready"
    /\ icon = "ready"
    /\ callAfter = <<>>
    /\ mainpc = "loop"
    /\ model = None
    /\ record_thread = None
    /\ result = None
    /\ capture = "unset"
    /\ threads = <<>>
    /\ pasteboard = None
    /\ clicks = 0
    /\ loadCalls = 0
    /\ sinkCalls = <<>>
    /\ stops = <<>>
    /\ busyFrom = "none"

\* ---- main thread --------------------------------------------------------
\* _update_state with the second test written as a plain else
update_state_else ==
    IF ButtonIsNone THEN UNCHANGED <<state, icon, callAfter, busyFrom>>
    ELSE IF state = "ready" THEN
        /\ state' = "processing"
        /\ icon' = "processing"
        /\ callAfter' = Append(callAfter, "start")
        /\ busyFrom' = "ready"
    ELSE
        /\ state' = "processing"
        /\ icon' = "processing"
        /\ callAfter' = Append(callAfter, "finish")
        /\ busyFrom' = "recording"

\* _update_state with the first test written as  state != State.recording
update_state_restart ==
    IF ButtonIsNone THEN UNCHANGED <<state, icon, callAfter, busyFrom>>
    ELSE IF state # "recording" THEN
        /\ state' = "processing"
        /\ icon' = "processing"
        /\ callAfter' = Append(callAfter, "start")
        /\ busyFrom' = "ready"
    ELSE
        /\ state' = "processing"
        /\ icon' = "processing"
        /\ callAfter' = Append(callAfter, "finish")
        /\ busyFrom' = "recording"

\* _update_state scheduling the flows without entering State.processing
update_state_nobusy ==
    IF ButtonIsNone THEN UNCHANGED <<state, icon, callAfter, busyFrom>>
    ELSE IF state = "ready" THEN
        /\ UNCHANGED <<state, icon>>
        /\ callAfter' = Append(callAfter, "start")
        /\ busyFrom' = "ready"
    ELSE IF state = "recording" THEN
        /\ UNCHANGED <<state, icon>>
        /\ callAfter' = Append(callAfter, "finish")
        /\ busyFrom' = "recording"
    ELSE UNCHANGED <<state, icon, callAfter, busyFrom>>

\* StatusBarDelegate._update_state
_update_state ==
    IF ButtonIsNone THEN UNCHANGED <<state, icon, callAfter, busyFrom>>
    ELSE IF state = "ready" THEN
        /\ state' = "processing"
        /\ icon' = "processing"
        /\ callAfter' = Append(callAfter, "start")
        /\ busyFrom' = "ready"
    ELSE IF state = "recording" THEN
        /\ state' = "processing"
        /\ icon' = "processing"
        /\ callAfter' = Append(callAfter, "finish")
        /\ busyFrom' = "recording"
    ELSE UNCHANGED <<state, icon, callAfter, busyFrom>>

\* a click is delivered when the event loop is free
statusItemClicked_ ==
    /\ mainpc = "loop"
    /\ clicks < MaxClicks
    /\ clicks' = clicks + 1
    /\ _update_state
    /\ UNCHANGED <<mainpc, model, record_thread, result, capture, threads,
                   pasteboard, loadCalls, sinkCalls, stops>>

\* Scribe.start
start ==
    /\ capture' = "true"
    /\ threads' = Append(threads, NewThread)
    /\ record_thread' = Some(Len(threads) + 1)

\* lines 124-126 with State.ready assigned in place of State.recording
StartTail_ready ==
    /\ icon' = "recording"
    /\ state' = "ready"
    /\ start
    /\ mainpc' = "loop"

\* lines 124-126 without the setImage_ call
StartTail_noicon ==
    /\ UNCHANGED icon
    /\ state' = "recording"
    /\ start
    /\ mainpc' = "loop"

\* lines 124-126 of _start_recording_flow
StartTail ==
    /\ icon' = "recording"
    /\ state' = "recording"
    /\ start
    /\ mainpc' = "loop"

\* the model loaded on every start
NeedsInit_always(m) == TRUE

\* line 121: if self.scribe.model is None
NeedsInit(m) == m = None

\* StatusBarDelegate._start_recording_flow, up to the model load
_start_recording_flow ==
    /\ mainpc = "loop"
    /\ callAfter # <<>>
    /\ Head(callAfter) = "start"
    /\ callAfter' = Tail(callAfter)
    /\ IF ButtonIsNone
       THEN UNCHANGED <<state, icon, mainpc, capture, threads, record_thread>>
       ELSE IF NeedsInit(model)
       THEN /\ mainpc' = "init_model"
            /\ UNCHANGED <<state, icon, capture, threads, record_thread>>
       ELSE StartTail
    /\ UNCHANGED <<model, result, pasteboard, clicks, loadCalls, sinkCalls,
                   stops, busyFrom>>

\* Scribe.init_model returns: the rest of _start_recording_flow runs
init_model ==
    /\ mainpc = "init_model"
    /\ loadCalls' = loadCalls + 1
    /\ model' = Some(loadCalls + 1)
    /\ StartTail
    /\ UNCHANGED <<callAfter, result, pasteboard, clicks, sinkCalls, stops,
                   busyFrom>>

\* from_pretrained raises: the exception leaves _start_recording_flow at
\* line 122, nothing in it catches it, and the event loop takes the next event
init_model_raises ==
    /\ mainpc = "init_model"
    /\ loadCalls' = loadCalls + 1
    /\ mainpc' = "loop"
    /\ UNCHANGED <<state, icon, callAfter, model, record_thread, result,
                   capture, threads, pasteboard, clicks, sinkCalls, stops,
                   busyFrom>>

\* StatusBarDelegate._finish_recording_flow up to the join of Scribe.stop
_finish_recording_flow ==
    /\ mainpc = "loop"
    /\ callAfter # <<>>
    /\ Head(callAfter) = "finish"
    /\ callAfter' = Tail(callAfter)
    /\ IF ButtonIsNone
       THEN UNCHANGED <<capture, mainpc, threads>>
       ELSE /\ capture' = "false"
            \* None.join() raises AttributeError and ends the callback
            /\ mainpc' = IF record_thread = None THEN "loop" ELSE "join"
            /\ threads' = IF record_thread = None THEN threads
                           ELSE [threads EXCEPT ![record_thread[1]].atStop =
                                    Some(threads[record_thread[1]].chunks)]
    /\ UNCHANGED <<state, icon, model, record_thread, result,
                   pasteboard, clicks, loadCalls, sinkCalls, stops, busyFrom>>

\* stop without the join
JoinDone_nowait(t) == TRUE

\* line 188: self.record_thread.join() returns once the thread has ended
JoinDone(t) == ~Alive(t)

\* line 134: if result is not None
ShouldPaste(r) == r # None

\* StatusBarDelegate._paste_to_clipboard
_paste_to_clipboard(text) ==
    /\ pasteboard' = Some(text)
    /\ sinkCalls' = Append(sinkCalls,
                           [session |-> record_thread[1], text |-> text])

\* the join returns, stop returns self.result, and the rest of
\* _finish_recording_flow runs
stop ==
    /\ mainpc = "join"
    /\ JoinDone(threads[record_thread[1]])
    /\ stops' = Append(stops, [session |-> record_thread[1], ret |-> result])
    /\ IF ShouldPaste(result)
       THEN _paste_to_clipboard(result[1])
       ELSE UNCHANGED <<pasteboard, sinkCalls>>
    /\ state' = "ready"
    /\ icon' = "ready"
    /\ mainpc' = "loop"
    /\ UNCHANGED <<callAfter, model, record_thread, result, capture, threads,
                   clicks, loadCalls, busyFrom>>

\* ---- capture thread: Scribe.record --------------------------------------
ThreadFrame ==
    UNCHANGED <<state, icon, callAfter, mainpc, model, record_thread, capture,
                pasteboard, clicks, loadCalls, sinkCalls, stops, busyFrom>>

\* lines 164-170: the temp dir and the wave file are created
record_setup(i) ==
    /\ Started(i)
    /\ threads[i].pc = "start"
    /\ threads' = [threads EXCEPT ![i].pc = "open", ![i].tmp = TRUE,
                                  ![i].wavOpen = TRUE]
    /\ UNCHANGED result
    /\ ThreadFrame

\* line 171: p.open returns a stream
record_open(i) ==
    /\ Started(i)
    /\ threads[i].pc = "open"
    /\ threads' = [threads EXCEPT ![i].pc = "while"]
    /\ UNCHANGED result
    /\ ThreadFrame

\* line 171: p.open raises; both with blocks exit, the thread ends
record_open_raises(i) ==
    /\ Started(i)
    /\ threads[i].pc = "open"
    /\ threads' = [threads EXCEPT ![i].pc = "raised", ![i].tmp = FALSE,
                                  ![i].wavOpen = FALSE,
                                  ![i].cause = "device"]
    /\ UNCHANGED result
    /\ ThreadFrame

\* the loop of record testing a copy of the flag taken before the loop: it
\* never sees stop() clear self.capture
record_while_cached(i) ==
    /\ Started(i)
    /\ threads[i].pc = "while"
    /\ threads[i].chunks < MaxChunks
    /\ threads' = [threads EXCEPT ![i].pc = "read"]
    /\ UNCHANGED result
    /\ ThreadFrame

\* record with lines 177-184 indented into the with wave.open block: the loop
\* exit goes to the size test with the wave file still open
record_while_inwith(i) ==
    /\ Started(i)
    /\ threads[i].pc = "while"
    /\ IF capture = "true"
       THEN /\ threads[i].chunks < MaxChunks
            /\ threads' = [threads EXCEPT ![i].pc = "read"]
       ELSE threads' = [threads EXCEPT ![i].pc = "stat"]
    /\ UNCHANGED result
    /\ ThreadFrame

\* line 172: while self.capture; on exit lines 174-175 and the wave file closes
record_while(i) ==
    /\ Started(i)
    /\ threads[i].pc = "while"
    /\ IF capture = "true"
       THEN /\ threads[i].chunks < MaxChunks
            /\ threads' = [threads EXCEPT ![i].pc = "read"]
       ELSE threads' = [threads EXCEPT ![i].pc = "stat",
                                       ![i].wavOpen = FALSE]
    /\ UNCHANGED result
    /\ ThreadFrame

\* line 173: wf.writeframes(stream.read(CHUNK))
record_read(i) ==
    /\ Started(i)
    /\ threads[i].pc = "read"
    /\ threads' = [threads EXCEPT ![i].pc = "while",
                                  ![i].chunks = threads[i].chunks + 1]
    /\ UNCHANGED result
    /\ ThreadFrame

\* lines 177-184: the size test; the short branch ends the thread
record_stat(i) ==
    /\ Started(i)
    /\ threads[i].pc = "stat"
    /\ IF LongEnough(FileSize(threads[i].chunks))
       THEN /\ threads' = [threads EXCEPT
                               ![i].pc = "transcribe",
                               ![i].sized = Some(FileSize(threads[i].chunks)),
                               ![i].modelUsed = model]
            /\ UNCHANGED result
       ELSE /\ result' = None
            /\ threads' = [threads EXCEPT
                               ![i].pc = "done",
                               ![i].sized = Some(FileSize(threads[i].chunks)),
                               ![i].tmp = FALSE]
    /\ ThreadFrame

\* lines 179-181 with the text kept in a local, self.result not assigned
record_transcribed_local(i, t) ==
    /\ Started(i)
    /\ threads[i].pc = "transcribe"
    /\ UNCHANGED result
    /\ threads' = [threads EXCEPT ![i].pc = "done", ![i].tmp = FALSE,
                                  ![i].text = Some(t)]
    /\ ThreadFrame

\* lines 179-181: transcribe returns text t, the temp dir is removed
record_transcribed(i, t) ==
    /\ Started(i)
    /\ threads[i].pc = "transcribe"
    /\ result' = Some(t)
    /\ threads' = [threads EXCEPT ![i].pc = "done", ![i].tmp = FALSE,
                                  ![i].text = Some(t)]
    /\ ThreadFrame

\* record with a temp dir made by mkdtemp and removed only at its last line:
\* a raising transcribe leaves it behind
record_transcribe_raises_leak(i) ==
    /\ Started(i)
    /\ threads[i].pc = "transcribe"
    /\ threads' = [threads EXCEPT ![i].pc = "raised",
                                  ![i].cause = "transcribe"]
    /\ UNCHANGED result
    /\ ThreadFrame

\* line 179: transcribe raises, the temp dir is removed, the thread ends
record_transcribe_raises(i) ==
    /\ Started(i)
    /\ threads[i].pc = "transcribe"
    /\ threads' = [threads EXCEPT ![i].pc = "raised", ![i].tmp = FALSE,
                                  ![i].cause = "transcribe"]
    /\ UNCHANGED result
    /\ ThreadFrame

MainStep ==
    \/ _start_recording_flow
    \/ init_model
    \/ init_model_raises
    \/ _finish_recording_flow
    \/ stop

ThreadStep(i) ==
    \/ record_setup(i)
    \/ record_open(i)
    \/ record_open_raises(i)
    \/ record_while(i)
    \/ record_read(i)
    \/ record_stat(i)
    \/ \E t \in Texts : record_transcribed(i, t)
    \/ record_transcribe_raises(i)

Next ==
    \/ statusItemClicked_
    \/ MainStep
    \/ \E i \in ThreadIds : ThreadStep(i)

Spec == Init /\ [][Next]_vars

\* the event loop runs every queued callback and every started thread is
\* scheduled; clicks are up to the user
FairSpec ==
    /\ Spec
    /\ WF_vars(MainStep)
    /\ \A i \in ThreadIds : WF_vars(ThreadStep(i))

TypeOK ==
    /\ state \in {"ready", "processing", "recording"}
    /\ icon \in {"ready", "processing", "recording"}
    /\ mainpc \in {"loop", "init_model", "join"}
    /\ capture \in {"unset", "true", "false"}
    /\ clicks \in 0..MaxClicks

\* ---- properties ---------------------------------------------------------
\* calls of _paste_to_clipboard made while session s was being stopped
CallsOf(s) == {c \in DOMAIN sinkCalls : sinkCalls[c].session = s}

\* a start or a stop is queued or running on the main thread
OperationInFlight == callAfter # <<>> \/ mainpc # "loop"

\* the edges of the controller's state machine
EdgeOK ==
    \/ state' = state
    \/ /\ state = "ready" /\ state' = "processing"
       /\ clicks' = clicks + 1
    \/ /\ state = "processing" /\ state' = "recording"
       /\ busyFrom = "ready"
       /\ Len(threads') = Len(threads) + 1
    \/ /\ state = "recording" /\ state' = "processing"
       /\ clicks' = clicks + 1
    \/ /\ state = "processing" /\ state' = "ready"
       /\ busyFrom = "recording"
       /\ Len(stops') = Len(stops) + 1

\* C1: the state starts at ready and every change of it is one of
\* ready -> processing on a click, processing -> recording when a start
\* entered from ready completes, recording -> processing on a click,
\* processing -> ready when a stop entered from recording completes.
C1_EdgesOnly == (state = "ready") /\ [][EdgeOK]_vars

\* a full cycle and the start of the next one have happened
C1_Witness == Len(stops) >= 1 /\ state = "recording"

\* C2: a click delivered while the state is processing changes nothing but
\* the count of clicks: state, icon, queued callbacks, capture flag, threads
\* and every other attribute keep their values.
C2_BusyToggleNoOp ==
    [][(clicks' # clicks /\ state = "processing") =>
          UNCHANGED <<state, icon, callAfter, mainpc, model, record_thread,
                      result, capture, threads, pasteboard, loadCalls,
                      sinkCalls, stops, busyFrom>>]_vars

\* a second click arrived while the first start was still queued
C2_Witness ==
    /\ clicks >= 2
    /\ threads = <<>>
    /\ callAfter = <<"start">>
    /\ state = "processing"

\* C3: at most one capture thread is alive or holds a scratch file.
C3_OneSession ==
    Cardinality({i \in DOMAIN threads :
                    Alive(threads[i]) \/ threads[i].tmp}) <= 1

\* two clicks came back to back before the first deferred callback ran (the
\* second was dropped), and the one session they started is capturing
C3_Witness ==
    /\ Len(threads) = 1
    /\ threads[1].tmp
    /\ Alive(threads[1])
    /\ state = "recording"
    /\ clicks >= 2

\* C4: once the stream of the current session failed to open and the main
\* thread is back in the event loop with nothing queued, the state and the
\* icon are ready.
C4_DeviceFailureReturnsIdle ==
    (/\ threads # <<>>
     /\ threads[Len(threads)].cause = "device"
     /\ mainpc = "loop"
     /\ callAfter = <<>>)
    => (state = "ready" /\ icon = "ready")

\* C5: once the model load has failed and the main thread is back in the
\* event loop, the state and the icon are ready.
C5_LoadFailureReturnsIdle ==
    (model = None /\ loadCalls > 0 /\ mainpc = "loop")
    => (state = "ready" /\ icon = "ready")

\* C6: the stop of a session whose transcription raised returns None and
\* makes no clipboard call.
C6_TranscribeFailureNoResult ==
    \A k \in DOMAIN stops :
        threads[stops[k].session].cause = "transcribe"
        => (stops[k].ret = None /\ CallsOf(stops[k].session) = {})

\* C7: the stop of a session that captured no chunk returns None, with no
\* transcription and no clipboard call; a session that captured a chunk and
\* was stopped had transcription invoked.
C7_ShortSampleNoResult ==
    \A k \in DOMAIN stops :
        LET s == stops[k].session IN
        /\ threads[s].chunks = 0
           => /\ stops[k].ret = None
              /\ threads[s].modelUsed = None
              /\ CallsOf(s) = {}
        /\ threads[s].chunks >= 1 => threads[s].modelUsed # None

\* for every stopped session that captured a chunk and whose transcription
\* returned a text: stop returned that text and the clipboard got it once
RoundTripInv ==
    \A k \in DOMAIN stops :
        LET s == stops[k].session IN
        (threads[s].chunks >= 1 /\ threads[s].text # None)
        => /\ stops[k].ret = threads[s].text
           /\ Cardinality(CallsOf(s)) = 1
           /\ \A c \in CallsOf(s) : sinkCalls[c].text = threads[s].text[1]
           /\ pasteboard # None

\* a clipboard call happens in the step that completes a stop and ends at ready
RoundTripStep ==
    Len(sinkCalls') > Len(sinkCalls)
    => /\ state = "processing" /\ state' = "ready"
       /\ Len(stops') = Len(stops) + 1
       /\ pasteboard' = Some(sinkCalls'[Len(sinkCalls')].text)

\* C8: a session with at least one chunk whose transcription returned t has
\* t put on the clipboard exactly once, in the step that takes the state from
\* processing to ready.
C8_RoundTrip == []RoundTripInv /\ [][RoundTripStep]_vars

\* a session of MaxChunks chunks was transcribed and pasted
C8_Witness ==
    /\ state = "ready"
    /\ Len(stops) = 1
    /\ threads[1].chunks = MaxChunks
    /\ threads[1].text = Some("hello world")
    /\ pasteboard = Some("hello world")

\* C9: from_pretrained is called at most once and every transcription uses
\* the one loaded model.
C9_ModelLoadOnce ==
    /\ loadCalls <= 1
    /\ \A i \in DOMAIN threads :
          threads[i].modelUsed # None
          => (threads[i].modelUsed = model /\ model = Some(1))

\* two sessions have reached transcription
C9_Witness ==
    /\ Len(threads) = 2
    /\ threads[1].modelUsed # None
    /\ threads[2].modelUsed # None

\* C10: whenever the state is processing a start or stop is in flight, and
\* processing always leads to ready or recording.
C10_BusyTransient ==
    /\ [](state = "processing" => OperationInFlight)
    /\ ((state = "processing") ~> (state # "processing"))

\* C11: every clipboard call carries a non-empty text, is made for a stop
\* that returned a result, and is made in the step that completes a stop.
C11_SinkOnlyNonEmpty ==
    /\ [](\A c \in DOMAIN sinkCalls :
             /\ sinkCalls[c].text # ""
             /\ \E k \in DOMAIN stops :
                   /\ stops[k].session = sinkCalls[c].session
                   /\ stops[k].ret = Some(sinkCalls[c].text))
    /\ [][sinkCalls' # sinkCalls => Len(stops') = Len(stops) + 1]_vars

\* C12: whenever the state or the icon is ready, no capture thread is alive
\* and no scratch file exists.
C12_ReadyMeansNoWorker ==
    (state = "ready" \/ icon = "ready")
    => \A i \in DOMAIN threads : ~Alive(threads[i]) /\ ~threads[i].tmp

\* ready again after a session that captured and transcribed
C12_Witness ==
    /\ state = "ready"
    /\ icon = "ready"
    /\ Len(threads) = 1
    /\ threads[1].chunks >= 1
    /\ threads[1].pc = "done"

\* C13: whenever the main thread is in the event loop, between callbacks,
\* the icon shown is the one of the current state.
C13_IconMatchesState == mainpc = "loop" => icon = state

\* the three icons have been shown in turn: recording after a full cycle
C13_Witness ==
    /\ mainpc = "loop"
    /\ Len(stops) = 1
    /\ Len(threads) = 2
    /\ icon = "recording"

\* the stop() of session i has returned, so its join has returned
JoinReturned(i) == \E k \in DOMAIN stops : stops[k].session = i

\* C14 as stated: a transcription that has begun (the thread is in, or past,
\* model.transcribe) belongs to a session whose join has already returned.
C14_TranscribeAfterJoin ==
    \A i \in DOMAIN threads :
        threads[i].pc = "transcribe" => JoinReturned(i)

\* C14 amended: transcription runs on the capture thread itself, after the
\* capture loop was left and the wave file closed, and the join of that
\* session returns only once the thread, transcription included, has ended.
C14_JoinAfterTranscribe ==
    /\ \A i \in DOMAIN threads :
          threads[i].pc = "transcribe"
          => /\ ~threads[i].wavOpen
             /\ ~JoinReturned(i)
    /\ \A k \in DOMAIN stops : ~Alive(threads[stops[k].session])

\* the main thread waits in the join while the thread transcribes
C14_Witness ==
    /\ mainpc = "join"
    /\ threads[record_thread[1]].pc = "transcribe"
    /\ threads[record_thread[1]].atStop # None

\* C15: once transcription of a session has begun, its wave file is closed,
\* its capture loop is over and the file keeps the size it had at the size
\* test: no chunk is appended during or after transcription.
C15_SizeStable ==
    \A i \in DOMAIN threads :
        threads[i].modelUsed # None
        => /\ ~threads[i].wavOpen
           /\ threads[i].pc \in {"transcribe", "done", "raised"}
           /\ threads[i].sized = Some(FileSize(threads[i].chunks))

\* a transcription of a file of MaxChunks chunks is running
C15_Witness ==
    \E i \in DOMAIN threads :
        /\ threads[i].pc = "transcribe"
        /\ threads[i].chunks = MaxChunks

\* calls of Scribe.stop made so far, the one waiting in its join included
StopsBegun == Len(stops) + (IF mainpc = "join" THEN 1 ELSE 0)

\* a step in which _start_recording_flow calls Scribe.start
StartCalled == Len(threads') = Len(threads) + 1

\* a step in which _finish_recording_flow calls Scribe.stop
StopCalled ==
    /\ callAfter # <<>>
    /\ Head(callAfter) = "finish"
    /\ callAfter' = Tail(callAfter)

\* C16: starts and stops alternate, beginning with a start: a start is called
\* only when every earlier start has been matched by a returned stop and no
\* thread is alive; a stop is called only for a started, unmatched thread
\* and only when no other stop is waiting in its join.
C16_StartStopAlternate ==
    /\ [](Len(threads) - StopsBegun \in {0, 1})
    /\ [][StartCalled =>
             /\ Len(stops) = Len(threads)
             /\ mainpc # "join"
             /\ \A i \in DOMAIN threads : ~Alive(threads[i])]_vars
    /\ [][StopCalled =>
             /\ record_thread = Some(Len(threads))
             /\ Len(stops) = Len(threads) - 1
             /\ mainpc = "loop" /\ mainpc' = "join"]_vars

\* start, stop, start, stop have been called and the last stop is in its join
C16_Witness ==
    /\ Len(threads) = 2
    /\ Len(stops) = 1
    /\ mainpc = "join"

\* C17 as stated: the main thread never runs the model load and never waits
\* in a join for a thread that is still capturing or transcribing.
C17_NoBlockingOnMain ==
    /\ mainpc # "init_model"
    /\ ~(mainpc = "join" /\ Alive(threads[record_thread[1]]))

\* a step of a capture thread: it writes a chunk, closes the file, reads its
\* size or ends a transcription
WorkerWork ==
    \E i \in DOMAIN threads :
        /\ i \in DOMAIN threads'
        /\ \/ threads'[i].chunks # threads[i].chunks
           \/ threads'[i].wavOpen # threads[i].wavOpen
           \/ threads'[i].sized # threads[i].sized
           \/ threads'[i].text # threads[i].text

\* C17 amended: chunk reads, file I/O and inference are steps of a capture
\* thread that leave the main thread where it is; the model load is a step
\* of the main thread, taken inside _start_recording_flow; and whenever the
\* main thread is inside the load or a join, the state and the icon are
\* processing and no click is handled.
C17_BlockingOnlyWhileBusy ==
    /\ [](mainpc # "loop" => (state = "processing" /\ icon = "processing"))
    /\ [][WorkerWork => UNCHANGED <<mainpc, state, icon, callAfter>>]_vars
    /\ [][loadCalls' # loadCalls =>
             (mainpc = "init_model" /\ mainpc' = "loop")]_vars
    /\ [][clicks' # clicks => (mainpc = "loop" /\ mainpc' = "loop")]_vars

\* the main thread is inside from_pretrained, the first load of the run
C17_Witness ==
    /\ mainpc = "init_model"
    /\ state = "processing"
    /\ loadCalls = 0

\* C18: a capture thread that has ended, on any path, left no temp dir and no
\* open wave file, so none survives the return of stop().
C18_ScratchReleased ==
    /\ \A i \in DOMAIN threads :
          ~Alive(threads[i]) => (~threads[i].tmp /\ ~threads[i].wavOpen)
    /\ \A k \in DOMAIN stops : ~threads[stops[k].session].tmp

\* two stopped sessions: one whose transcription raised, one whose stream
\* did not open
C18_Witness ==
    /\ Len(stops) = 2
    /\ threads[1].cause = "transcribe"
    /\ threads[2].cause = "device"

\* C19: every stop() returns what its own session produced (the text its
\* transcription returned, else None), and every text put on the clipboard
\* was produced by the session being stopped.
C19_ResultOfSameSession ==
    /\ \A k \in DOMAIN stops : stops[k].ret = threads[stops[k].session].text
    /\ \A c \in DOMAIN sinkCalls :
          threads[sinkCalls[c].session].text = Some(sinkCalls[c].text)

\* C20: the capture flag is true from the launch of a thread until stop()
\* clears it and then stays false while that thread is alive; it is set to
\* true only by a start, made when no thread is alive; after stop() cleared it
\* the loop appends at most one more chunk; and the join always returns.
C20_StopSignalNotLost ==
    /\ [](\A i \in DOMAIN threads :
             /\ Alive(threads[i])
                => capture = (IF threads[i].atStop = None
                              THEN "true" ELSE "false")
             /\ threads[i].atStop # None
                => threads[i].chunks <= threads[i].atStop[1] + 1)
    /\ [][(capture' = "true" /\ capture # "true") => StartCalled]_vars
    /\ [][StartCalled =>
             /\ capture' = "true"
             /\ \A i \in DOMAIN threads : ~Alive(threads[i])]_vars
    /\ ((mainpc = "join") ~> (mainpc = "loop"))

\* stop() cleared the flag during a read: one more chunk was appended, the
\* thread ended and the join returned
C20_Witness ==
    /\ Len(stops) = 1
    /\ threads[1].atStop # None
    /\ threads[1].chunks = threads[1].atStop[1] + 1
    /\ threads[1].pc = "done"
====
